---- MODULE Spec2Model ----
(***************************************************************************)
(* Model of src/src/auth/hooks/useAuth.ts: the wallet session (a recoil    *)
(* atom initialised from storage), the synchronous operations on it, and   *)
(* the asynchronous transaction operations, which suspend at every await   *)
(* on the Chain Client (lcd) or the Hardware Device Gateway (ledger).      *)
(*                                                                         *)
(* A call reads `wallet` from the render it was issued in: the model       *)
(* captures the atom's value when the call starts and the call keeps that  *)
(* value over all of its suspension points.                                *)
(***************************************************************************)
EXTENDS Integers, Sequences, FiniteSets, Bags, TLC

VARIABLES
  wallet,        \* the walletState atom (useAuth.ts:19-22, 28)
  persisted,     \* the "current wallet" record kept by the keystore
  vault,         \* the stored wallets of the keystore (getStoredWallets)
  calls,         \* the bag of asynchronous calls in flight
  last           \* the operation that ended most recently, and how

vars == <<wallet, persisted, vault, calls, last>>

-----------------------------------------------------------------------------
(* Bounds and input sets *)

MaxCalls == 1          \* asynchronous calls that may be in flight at once
MaxSeq == 1            \* account sequences the chain may report: 0..MaxSeq
MaxRacers == 2         \* sign/post calls in flight at once, in SpecRace

SequenceNumbers == 0..MaxSeq

Names == {"alice", "msig", "ghost"}     \* "ghost" is not in the vault
Passwords == {"pw1", "wrong"}
LedgerAddresses == {"addr2"}
SignerAddresses == {"addr3"}            \* address argument of createSignature
BytesIn == {"b1", "b2"}

-----------------------------------------------------------------------------
(* JavaScript values *)

\* the value `undefined`
undefined == [undefined |-> TRUE]

JsBool(b) == [bool |-> b]
JsString(s) == [str |-> s]

\* the outcome of a call: a returned value or a thrown error
Ok(v) == [kind |-> "ok", value |-> v]
Err(k, m) == [kind |-> k, msg |-> m]

SessionError == Err("SessionError", "Wallet is not defined")
IncorrectPasswordError == Err("IncorrectPasswordError", "Incorrect password")
UnsupportedOperation ==
  Err("UnsupportedOperation", "Ledger can not sign arbitrary data")
DeviceError == Err("DeviceError", "Public key is not defined")
NotFoundError == Err("NotFoundError", "Wallet does not exist")
BroadcastError(raw_log) == Err("BroadcastError", raw_log)
\* failures raised by the collaborators themselves
StorageError == Err("StorageError", "storage failed")
GatewayError == Err("GatewayError", "keystore failed")
ChainError == Err("ChainError", "request failed")
DeviceRejected == Err("DeviceError", "device failed")
InternalError == Err("InternalError", "Signature is undefined")
EncryptError == Err("EncryptError", "encrypt failed")

-----------------------------------------------------------------------------
(* The keystore (auth/scripts/keystore) and the variant tests (scripts/is) *)

\* the wallets the keystore holds: a single wallet whose key is encrypted
\* under "pw1", and a multisig wallet, which has no key
StoredWallets ==
  [n \in {"alice", "msig"} |->
     IF n = "alice"
       THEN [name |-> "alice", address |-> "addr1", encrypted |-> "pw1"]
       ELSE [name |-> "msig", address |-> "addr3", multisig |-> TRUE]]

\* is.multisig and is.ledger: the tags connect and connectLedger set
isMultisig(w) == "multisig" \in DOMAIN w
isLedger(w) == "ledger" \in DOMAIN w

\* is.local: a wallet kept in the keystore, hence one with a name: getKey
\* reads `name` from the wallet is.local has let through (useAuth.ts:63, 73),
\* and a Ledger descriptor has none
isLocal(w) == w # undefined /\ ~isLedger(w)

\* getStoredWallet(name): the stored wallet, or NotFoundError
getStoredWallet(v, name) ==
  IF name \in DOMAIN v THEN Ok(v[name]) ELSE NotFoundError

\* whether `password` decrypts the key stored under `name`
Decrypts(v, name, password) ==
  /\ name \in DOMAIN v
  /\ "encrypted" \in DOMAIN v[name]
  /\ v[name].encrypted = password

\* getDecryptedKey({name, password}): the replies the gateway can give: the
\* key when the password decrypts it; otherwise it raises or yields nothing
getDecryptedKey(v, name, password) ==
  IF Decrypts(v, name, password)
    THEN {Ok([key |-> name])}
    ELSE {Ok(undefined), IncorrectPasswordError}

\* testPassword({name, password}) -> bool, or a gateway error
testPassword(v, name, password) ==
  {Ok(JsBool(Decrypts(v, name, password))), GatewayError}

\* storeWallet(wallet) and clearWallet(): done, or a storage failure
storeWallet == {Ok(undefined), StorageError}
clearWallet == {Ok(undefined), StorageError}

\* the descriptors the session can hold
LocalWallet(name, address) == [name |-> name, address |-> address]
MultisigWallet(name, address) ==
  [name |-> name, address |-> address, multisig |-> TRUE]
\* mutant: the Ledger descriptor is given a name
LedgerWallet_Named(address) ==
  [name |-> "ledger", address |-> address, ledger |-> TRUE]

LedgerWallet(address) == [address |-> address, ledger |-> TRUE]

Descriptors ==
  {LocalWallet("alice", "addr1"), MultisigWallet("msig", "addr3")}
    \cup {LedgerWallet(a) : a \in LedgerAddresses}

-----------------------------------------------------------------------------
(* Helpers of the hook, as functions of the wallet `w` the render holds *)

\* useMemo: the wallet when it is local, undefined otherwise
connectedWallet(w) == IF ~isLocal(w) THEN undefined ELSE w

\* mutant: tests the wallet itself instead of the memoised local wallet
getConnectedWallet_AnyWallet(w) ==
  IF w = undefined THEN SessionError ELSE Ok(w)

getConnectedWallet(w) ==
  IF connectedWallet(w) = undefined THEN SessionError
  ELSE Ok(connectedWallet(w))

\* a collaborator call that was made, with the reply it gave
T(call, reply) == [call |-> call, reply |-> reply]

\* the outcome of (a part of) an operation: its result and the collaborator
\* calls made
Outcome(result, trace) == [result |-> result, trace |-> trace]

\* getKey(password): the outcomes it can have
getKey(w, v, password) ==
  LET c == getConnectedWallet(w) IN
  IF c.kind # "ok" THEN {Outcome(c, <<>>)}
  ELSE {Outcome(k, <<T("vault.getDecryptedKey", k)>>) :
          k \in getDecryptedKey(v, c.value.name, password)}

\* `const pk = getKey(password); if (!pk) throw new PasswordError(...)`
getKeyOrThrow(w, v, password) ==
  {IF k.result.kind = "ok" /\ k.result.value = undefined
     THEN Outcome(IncorrectPasswordError, k.trace)
     ELSE k : k \in getKey(w, v, password)}

\* encrypt(key, password) and encode(JSON.stringify(data))
encrypt(key, password) == [cipher |-> key, under |-> password]
encode(data) == [base64 |-> [json |-> data]]

\* how an operation ended: its result and the collaborator calls it made;
\* `wallet` is the wallet of the render it was issued in
Ended(op, w, result, trace) ==
  [op |-> op, wallet |-> w, result |-> result, trace |-> trace]

\* connect, connectLedger and disconnect do not read the wallet
EndedSession(op, result, trace) ==
  [op |-> op, result |-> result, trace |-> trace]

-----------------------------------------------------------------------------
(* connect | disconnect *)

\* mutant: sets the session without storing the wallet
connect_NoStore(name) ==
  LET stored == getStoredWallet(vault, name) IN
  /\ UNCHANGED <<vault, calls, persisted>>
  /\ IF stored.kind # "ok"
       THEN /\ last' = EndedSession("connect", stored,
                                    <<T("vault.getStoredWallet", stored)>>)
            /\ UNCHANGED wallet
       ELSE /\ wallet' = IF isMultisig(stored.value)
                           THEN MultisigWallet(name, stored.value.address)
                           ELSE LocalWallet(name, stored.value.address)
            /\ last' = EndedSession("connect", Ok(undefined),
                                    <<T("vault.getStoredWallet", stored)>>)

\* mutant: drops the current session before it looks the wallet up
connect_ClearsFirst(name) ==
  LET stored == getStoredWallet(vault, name) IN
  /\ UNCHANGED <<vault, calls>>
  /\ IF stored.kind # "ok"
       THEN /\ last' = EndedSession("connect", stored,
                                    <<T("vault.getStoredWallet", stored)>>)
            /\ wallet' = undefined
            /\ UNCHANGED persisted
       ELSE LET w == IF isMultisig(stored.value)
                       THEN MultisigWallet(name, stored.value.address)
                       ELSE LocalWallet(name, stored.value.address)
            IN \E reply \in storeWallet :
                 /\ last' = EndedSession("connect", reply,
                                         <<T("vault.getStoredWallet", stored),
                                           T("vault.storeWallet", reply)>>)
                 /\ IF reply.kind = "ok"
                      THEN persisted' = w /\ wallet' = w
                      ELSE wallet' = undefined /\ UNCHANGED persisted

\* mutant: sets the session before it stores the wallet
connectLedger_SetsBeforeStore(address) ==
  LET w == LedgerWallet(address) IN
  /\ UNCHANGED <<vault, calls>>
  /\ wallet' = w
  /\ \E reply \in storeWallet :
       /\ last' = EndedSession("connectLedger", reply,
                               <<T("vault.storeWallet", reply)>>)
       /\ IF reply.kind = "ok"
            THEN persisted' = w
            ELSE UNCHANGED persisted

connect(name) ==
  LET stored == getStoredWallet(vault, name) IN
  /\ UNCHANGED <<vault, calls>>
  /\ IF stored.kind # "ok"
       THEN /\ last' = EndedSession("connect", stored,
                                    <<T("vault.getStoredWallet", stored)>>)
            /\ UNCHANGED <<wallet, persisted>>
       ELSE LET address == stored.value.address
                w == IF isMultisig(stored.value)
                       THEN MultisigWallet(name, address)
                       ELSE LocalWallet(name, address)
            IN \E reply \in storeWallet :
                 /\ last' = EndedSession("connect", reply,
                                         <<T("vault.getStoredWallet", stored),
                                           T("vault.storeWallet", reply)>>)
                 /\ IF reply.kind = "ok"
                      THEN persisted' = w /\ wallet' = w
                      ELSE UNCHANGED <<wallet, persisted>>

connectLedger(address) ==
  LET w == LedgerWallet(address) IN
  /\ UNCHANGED <<vault, calls>>
  /\ \E reply \in storeWallet :
       /\ last' = EndedSession("connectLedger", reply,
                               <<T("vault.storeWallet", reply)>>)
       /\ IF reply.kind = "ok"
            THEN persisted' = w /\ wallet' = w
            ELSE UNCHANGED <<wallet, persisted>>

\* disconnect(): clearWallet() and then setWallet(undefined); when clearWallet
\* throws, the statement after it is not reached
disconnect ==
  /\ UNCHANGED <<vault, calls>>
  /\ \E reply \in clearWallet :
       /\ last' = EndedSession("disconnect", reply,
                               <<T("vault.clearWallet", reply)>>)
       /\ IF reply.kind = "ok"
            THEN persisted' = undefined /\ wallet' = undefined
            ELSE UNCHANGED <<wallet, persisted>>

-----------------------------------------------------------------------------
(* The synchronous operations that read the session *)

callGetConnectedWallet ==
  /\ last' = Ended("getConnectedWallet", wallet, getConnectedWallet(wallet),
                   <<>>)
  /\ UNCHANGED <<wallet, persisted, vault, calls>>

\* encodeEncryptedWallet(password): the key is not tested before encrypt();
\* encrypt() of a missing key either throws or wraps the missing key
encodeEncryptedWallet(w, v, password) ==
  LET c == getConnectedWallet(w)
      bundle(key) == encode([name |-> c.value.name,
                             address |-> c.value.address,
                             encrypted_key |-> encrypt(key, password)])
  IN IF c.kind # "ok" THEN {Outcome(c, <<>>)}
     ELSE UNION {
       IF k.result.kind # "ok" THEN {k}
       ELSE IF k.result.value = undefined
         THEN {Outcome(EncryptError, k.trace),
               Outcome(Ok(bundle(undefined)), k.trace)}
         ELSE {Outcome(Ok(bundle(k.result.value)), k.trace)}
       : k \in getKey(w, v, password)}

callEncodeEncryptedWallet(password) ==
  /\ \E r \in encodeEncryptedWallet(wallet, vault, password) :
       last' = Ended("encodeEncryptedWallet", wallet, r.result, r.trace)
  /\ UNCHANGED <<wallet, persisted, vault, calls>>

\* validatePassword(password): whatever the try block throws becomes the
\* string "Incorrect password"; what testPassword returns is returned as is
validatePassword(w, v, password) ==
  LET c == getConnectedWallet(w) IN
  IF c.kind # "ok" THEN {Outcome(Ok(JsString("Incorrect password")), <<>>)}
  ELSE {Outcome(IF t.kind # "ok" THEN Ok(JsString("Incorrect password"))
                ELSE t,
                <<T("vault.testPassword", t)>>) :
          t \in testPassword(v, c.value.name, password)}

\* mutant: a password that is not accepted drops the session
callValidatePassword_DropsSession(password) ==
  /\ \E r \in validatePassword(wallet, vault, password) :
       /\ last' = Ended("validatePassword", wallet, r.result, r.trace)
       /\ wallet' = IF r.result.value = JsBool(TRUE) THEN wallet
                     ELSE undefined
  /\ UNCHANGED <<persisted, vault, calls>>

callValidatePassword(password) ==
  /\ \E r \in validatePassword(wallet, vault, password) :
       last' = Ended("validatePassword", wallet, r.result, r.trace)
  /\ UNCHANGED <<wallet, persisted, vault, calls>>

\* key.ecdsaSign(bytes): a signature with its recovery id, or no signature
ecdsaSign(key, bytes) ==
  {[recid |-> 0, signature |-> [by |-> key, over |-> bytes]],
   [recid |-> 0, signature |-> undefined]}

\* mutant: without the Ledger branch
signBytes_NoLedgerCheck(w, v, bytes, password) ==
  IF w = undefined THEN {Outcome(SessionError, <<>>)}
  ELSE UNION {
    IF k.result.kind # "ok" THEN {k}
    ELSE {IF s.signature = undefined
            THEN Outcome(InternalError, k.trace)
            ELSE Outcome(Ok([recid |-> s.recid,
                             signature |-> [base64 |-> s.signature],
                             public_key |-> k.result.value]),
                         k.trace)
          : s \in ecdsaSign(k.result.value, bytes)}
    : k \in getKeyOrThrow(w, v, password)}

\* signBytes(bytes, password)
signBytes(w, v, bytes, password) ==
  IF w = undefined THEN {Outcome(SessionError, <<>>)}
  ELSE IF isLedger(w) THEN {Outcome(UnsupportedOperation, <<>>)}
  ELSE UNION {
    IF k.result.kind # "ok" THEN {k}
    ELSE {IF s.signature = undefined
            THEN Outcome(InternalError, k.trace)
            ELSE Outcome(Ok([recid |-> s.recid,
                             signature |-> [base64 |-> s.signature],
                             public_key |-> k.result.value]),
                         k.trace)
          : s \in ecdsaSign(k.result.value, bytes)}
    : k \in getKeyOrThrow(w, v, password)}

callSignBytes(bytes, password) ==
  /\ \E r \in signBytes(wallet, vault, bytes, password) :
       last' = Ended("signBytes", wallet, r.result, r.trace)
  /\ UNCHANGED <<wallet, persisted, vault, calls>>

-----------------------------------------------------------------------------
(* The Chain Client (lcd) and the Hardware Device Gateway (ledger) *)

chainID == "chain-1"
SIGN_MODE_LEGACY_AMINO_JSON == "SIGN_MODE_LEGACY_AMINO_JSON"
SIGN_MODE_DIRECT == "SIGN_MODE_DIRECT"

\* what the chain reports for an account: its number and a sequence
AccountInfo(address, sequence) ==
  [account_number |-> address, sequence |-> sequence]

\* lcd.tx.create([{ address }], txOptions)
UnsignedTx(address) == [signer |-> address]

\* new SignDoc(chainID, account number, sequence, tx.auth_info, tx.body)
SignDoc(chain, accountInfo) ==
  [chainID |-> chain,
   account_number |-> accountInfo.account_number,
   sequence |-> accountInfo.sequence]

\* a transaction signed by `key` under the given options
SignedTx(unsignedTx, key, options) ==
  [tx |-> unsignedTx, by |-> key, options |-> options]

\* the replies broadcastSync can give
BroadcastResults ==
  { [txhash |-> "h", raw_log |-> "[]"],
    [txhash |-> "h", raw_log |-> "[]", code |-> 0],
    [txhash |-> "h", raw_log |-> "insufficient funds", code |-> 5] }

\* isTxError(result): the result carries a code, and it is not 0
isTxError(result) == "code" \in DOMAIN result /\ result.code # 0

\* an asynchronous call in flight: the operation, the wallet of the render
\* it was issued in, the collaborator call it awaits, the collaborator calls
\* it has made, and its live local variables
Call(op, w, pc, trace, env) ==
  [op |-> op, wallet |-> w, pc |-> pc, trace |-> trace, env |-> env]

InFlight == BagToSet(calls)

\* a call that throws before its first await ends at once
reject(op, w, result, trace) ==
  /\ last' = Ended(op, w, result, trace)
  /\ UNCHANGED calls

\* a call reaches its first await
begin(op, w, pc, trace, env) ==
  /\ calls' = calls (+) SetToBag({Call(op, w, pc, trace, env)})
  /\ UNCHANGED last

\* a call in flight reaches its next await
suspend(c, pc, trace, env) ==
  /\ calls' = (calls (-) SetToBag({c}))
                (+) SetToBag({Call(c.op, c.wallet, pc, trace, env)})
  /\ UNCHANGED last

\* a call in flight ends
finish(c, result, trace) ==
  /\ calls' = calls (-) SetToBag({c})
  /\ last' = Ended(c.op, c.wallet, result, trace)

CanStart == BagCardinality(calls) < MaxCalls
pending(c, pc) == c.pc = pc
replied(c, reply) == Append(c.trace, T(c.pc, reply))

-----------------------------------------------------------------------------
(* tx *)

\* create(txOptions), up to `await lcd.tx.create(...)`
callCreate ==
  /\ CanStart
  /\ IF wallet = undefined
       THEN reject("create", wallet, SessionError, <<>>)
       ELSE begin("create", wallet, "lcd.tx.create", <<>>,
                    [address |-> wallet.address])
  /\ UNCHANGED <<wallet, persisted, vault>>

\* createSignature(tx, address, password), up to `await lcd.auth.accountInfo`
callCreateSignature(address, password) ==
  /\ CanStart
  /\ IF wallet = undefined
       THEN reject("createSignature", wallet, SessionError, <<>>)
       ELSE begin("createSignature", wallet, "lcd.auth.accountInfo",
                    <<>>, [address |-> address, password |-> password])
  /\ UNCHANGED <<wallet, persisted, vault>>

\* createSignature after accountInfo: build the SignDoc, then branch on the
\* variant
resumeAccountInfo(c) ==
  /\ pending(c, "lcd.auth.accountInfo")
  /\ \E ok \in BOOLEAN, sequence \in SequenceNumbers :
       LET w == c.wallet
           env == c.env
           info == AccountInfo(env.address, sequence)
           doc == SignDoc(chainID, info)
       IN IF ~ok
            THEN /\ sequence = 0
                 /\ finish(c, ChainError, replied(c, ChainError))
          ELSE IF isLedger(w)
            THEN suspend(c, "ledger.getPubKey",
                         replied(c, Ok(info)), [doc |-> doc])
          ELSE \E k \in getKeyOrThrow(w, vault, env.password) :
                 LET tr == replied(c, Ok(info)) \o k.trace
                 IN IF k.result.kind # "ok"
                      THEN finish(c, k.result, tr)
                      ELSE finish(c, Ok([by |-> k.result.value,
                                         doc |-> doc,
                                         mode |-> SIGN_MODE_LEGACY_AMINO_JSON]),
                                  tr)
  /\ UNCHANGED <<wallet, persisted, vault>>

\* mutant: without `if (!pk) throw new PasswordError(...)`
signStart_NoKeyCheck(op, password) ==
  IF isLedger(wallet)
    THEN begin(op, wallet, "ledger.getPubKey", <<>>, [none |-> TRUE])
    ELSE \E k \in getKey(wallet, vault, password) :
           IF k.result.kind # "ok"
             THEN reject(op, wallet, k.result, k.trace)
             ELSE begin(op, wallet, "lcd.wallet.createAndSignTx",
                        k.trace, [key |-> k.result.value])

\* mutant: a Multisig wallet is sent to the device as a Ledger wallet is
signStart_MultisigToDevice(op, password) ==
  IF isLedger(wallet) \/ isMultisig(wallet)
    THEN begin(op, wallet, "ledger.getPubKey", <<>>, [none |-> TRUE])
    ELSE \E k \in getKeyOrThrow(wallet, vault, password) :
           IF k.result.kind # "ok"
             THEN reject(op, wallet, k.result, k.trace)
             ELSE begin(op, wallet, "lcd.wallet.createAndSignTx",
                          k.trace, [key |-> k.result.value])

\* mutant: one signing attempt per account at a time
signStart_Serialised(op, password) ==
  /\ \A c \in InFlight : c.wallet.address # wallet.address
  /\ IF isLedger(wallet)
       THEN begin(op, wallet, "ledger.getPubKey", <<>>, [none |-> TRUE])
       ELSE \E k \in getKeyOrThrow(wallet, vault, password) :
              IF k.result.kind # "ok"
                THEN reject(op, wallet, k.result, k.trace)
                ELSE begin(op, wallet, "lcd.wallet.createAndSignTx",
                             k.trace, [key |-> k.result.value])

\* sign(txOptions, password), up to its first await; `op` is "sign", or
\* "post" when post() has called it
signStart(op, password) ==
  IF isLedger(wallet)
    THEN begin(op, wallet, "ledger.getPubKey", <<>>, [none |-> TRUE])
    ELSE \E k \in getKeyOrThrow(wallet, vault, password) :
           IF k.result.kind # "ok"
             THEN reject(op, wallet, k.result, k.trace)
             ELSE begin(op, wallet, "lcd.wallet.createAndSignTx",
                          k.trace, [key |-> k.result.value])

sign(password) ==
  /\ IF wallet = undefined
       THEN reject("sign", wallet, SessionError, <<>>)
       ELSE signStart("sign", password)
  /\ UNCHANGED <<wallet, persisted, vault>>

\* post(txOptions, password), up to the first await of its sign()
post(password) ==
  /\ IF wallet = undefined
       THEN reject("post", wallet, SessionError, <<>>)
       ELSE signStart("post", password)
  /\ UNCHANGED <<wallet, persisted, vault>>

\* sign and post, issued while fewer than MaxCalls calls are in flight
callSign(password) == CanStart /\ sign(password)
callPost(password) == CanStart /\ post(password)

\* sign and post, issued while fewer than MaxRacers calls are in flight
raceSign(password) == BagCardinality(calls) < MaxRacers /\ sign(password)
racePost(password) == BagCardinality(calls) < MaxRacers /\ post(password)

\* mutant: post broadcasts whatever sign() ended with
signReturn_AlwaysBroadcast(c, result, trace) ==
  IF c.op = "post"
    THEN suspend(c, "lcd.tx.broadcastSync", trace, [signedTx |-> result])
    ELSE finish(c, result, trace)

\* mutant: post gives up when the session has been cleared meanwhile
signReturn_ChecksSession(c, result, trace) ==
  IF c.op = "post" /\ result.kind = "ok"
    THEN IF wallet = undefined
           THEN finish(c, SessionError, trace)
           ELSE suspend(c, "lcd.tx.broadcastSync", trace,
                        [signedTx |-> result.value])
    ELSE finish(c, result, trace)

\* sign() has ended with `result`: sign returns it; post goes on to
\* `await lcd.tx.broadcastSync(signedTx)` when sign returned a transaction
signReturn(c, result, trace) ==
  IF c.op = "post" /\ result.kind = "ok"
    THEN suspend(c, "lcd.tx.broadcastSync", trace,
                 [signedTx |-> result.value])
    ELSE finish(c, result, trace)

\* getLedgerKey() after `await ledger.getPubKey()`
resumeGetPubKey(c) ==
  /\ pending(c, "ledger.getPubKey")
  /\ \E hasPk \in BOOLEAN :
       IF ~hasPk
         THEN finish(c, DeviceError, replied(c, Ok(undefined)))
         ELSE LET tr == replied(c, Ok([pk |-> "pk"]))
                  key == [ledger |-> "pk"]
              IN IF c.op = "createSignature"
                   THEN suspend(c, "ledger.createSignatureAmino", tr,
                                [doc |-> c.env.doc, key |-> key])
                   ELSE suspend(c, "lcd.wallet.accountNumberAndSequence", tr,
                                [key |-> key])
  /\ UNCHANGED <<wallet, persisted, vault>>

\* mutant: reuses the sequence of the sign() that ended last
resumeAccountNumberAndSequence_Cached(c) ==
  /\ pending(c, "lcd.wallet.accountNumberAndSequence")
  /\ \E ok \in BOOLEAN, sequence \in SequenceNumbers :
       LET w == c.wallet
           info == AccountInfo(w.address, sequence)
           cached == last.op = "sign" /\ last.result.kind = "ok"
       IN IF ~ok
            THEN /\ sequence = 0
                 /\ signReturn(c, ChainError, replied(c, ChainError))
            ELSE suspend(c, "lcd.tx.create",
                         replied(c, Ok(info)),
                         [key |-> c.env.key,
                          address |-> w.address,
                          accountNumber |-> info.account_number,
                          sequence |-> IF cached
                                         THEN last.result.value.options.sequence
                                         ELSE info.sequence,
                          signMode |-> SIGN_MODE_LEGACY_AMINO_JSON])
  /\ UNCHANGED <<wallet, persisted, vault>>

\* sign, Ledger path, after `await wallet.accountNumberAndSequence()`:
\* fix the sign mode and call create(txOptions)
resumeAccountNumberAndSequence(c) ==
  /\ pending(c, "lcd.wallet.accountNumberAndSequence")
  /\ \E ok \in BOOLEAN, sequence \in SequenceNumbers :
       LET w == c.wallet
           info == AccountInfo(w.address, sequence)
       IN IF ~ok
            THEN /\ sequence = 0
                 /\ signReturn(c, ChainError, replied(c, ChainError))
            ELSE suspend(c, "lcd.tx.create",
                         replied(c, Ok(info)),
                         [key |-> c.env.key,
                          address |-> w.address,
                          accountNumber |-> info.account_number,
                          sequence |-> info.sequence,
                          signMode |-> SIGN_MODE_LEGACY_AMINO_JSON])
  /\ UNCHANGED <<wallet, persisted, vault>>

\* mutant: the Ledger path of sign goes on to the device although
\* lcd.tx.create has failed
resumeTxCreate_SignsAnyway(c) ==
  /\ pending(c, "lcd.tx.create")
  /\ \E ok \in BOOLEAN :
       LET env == c.env
           unsignedTx == UnsignedTx(env.address)
           reply == IF ok THEN Ok(unsignedTx) ELSE ChainError
       IN IF c.op = "create"
            THEN finish(c, reply, replied(c, reply))
            ELSE suspend(c, "ledger.signTx", replied(c, reply),
                         [unsignedTx |-> unsignedTx,
                          key |-> env.key,
                          options |->
                            [chainID |-> chainID,
                             accountNumber |-> env.accountNumber,
                             sequence |-> env.sequence,
                             signMode |-> env.signMode]])
  /\ UNCHANGED <<wallet, persisted, vault>>

\* after `await lcd.tx.create(...)`: create() returns the unsigned tx; on the
\* Ledger path of sign the tx goes to the device with the options
resumeTxCreate(c) ==
  /\ pending(c, "lcd.tx.create")
  /\ \E ok \in BOOLEAN :
       LET env == c.env
           unsignedTx == UnsignedTx(env.address)
       IN IF c.op = "create"
            THEN IF ok
                   THEN finish(c, Ok(unsignedTx), replied(c, Ok(unsignedTx)))
                   ELSE finish(c, ChainError, replied(c, ChainError))
            ELSE IF ok
                   THEN suspend(c, "ledger.signTx", replied(c, Ok(unsignedTx)),
                                [unsignedTx |-> unsignedTx,
                                 key |-> env.key,
                                 options |->
                                   [chainID |-> chainID,
                                    accountNumber |-> env.accountNumber,
                                    sequence |-> env.sequence,
                                    signMode |-> env.signMode]])
                   ELSE signReturn(c, ChainError, replied(c, ChainError))
  /\ UNCHANGED <<wallet, persisted, vault>>

\* the device has signed, or has refused
resumeLedgerSign(c) ==
  /\ \/ pending(c, "ledger.createSignatureAmino")
     \/ pending(c, "ledger.signTx")
  /\ \E ok \in BOOLEAN :
       LET env == c.env IN
       IF ~ok
         THEN IF c.op = "createSignature"
                THEN finish(c, DeviceRejected, replied(c, DeviceRejected))
                ELSE signReturn(c, DeviceRejected, replied(c, DeviceRejected))
       ELSE IF c.op = "createSignature"
         THEN LET sig == [by |-> env.key, doc |-> env.doc,
                          mode |-> SIGN_MODE_LEGACY_AMINO_JSON]
              IN finish(c, Ok(sig), replied(c, Ok(sig)))
         ELSE LET signed == SignedTx(env.unsignedTx, env.key, env.options)
              IN signReturn(c, Ok(signed), replied(c, Ok(signed)))
  /\ UNCHANGED <<wallet, persisted, vault>>

\* sign, software path, after `await wallet.createAndSignTx(txOptions)`: the
\* Chain Client has looked the account up and signed with the key
resumeCreateAndSignTx(c) ==
  /\ pending(c, "lcd.wallet.createAndSignTx")
  /\ \E ok \in BOOLEAN, sequence \in SequenceNumbers :
       LET w == c.wallet
           signed == SignedTx(UnsignedTx(w.address), c.env.key,
                              [chainID |-> chainID,
                               accountNumber |-> w.address,
                               sequence |-> sequence,
                               signMode |-> SIGN_MODE_DIRECT])
       IN IF ~ok
            THEN /\ sequence = 0
                 /\ signReturn(c, ChainError, replied(c, ChainError))
            ELSE signReturn(c, Ok(signed), replied(c, Ok(signed)))
  /\ UNCHANGED <<wallet, persisted, vault>>

\* mutant: takes every result that carries a code for a rejection
postResult_AnyCode(result) ==
  IF "code" \in DOMAIN result
    THEN BroadcastError(result.raw_log) ELSE Ok(result)

\* post after `await lcd.tx.broadcastSync(signedTx)`
postResult(result) ==
  IF isTxError(result) THEN BroadcastError(result.raw_log) ELSE Ok(result)

\* mutant: a broadcast that fails is tried once more
resumeBroadcastSync_RetriesOnce(c) ==
  /\ pending(c, "lcd.tx.broadcastSync")
  /\ \/ IF \A i \in DOMAIN c.trace : c.trace[i].call # c.pc
          THEN suspend(c, c.pc, replied(c, ChainError), c.env)
          ELSE finish(c, ChainError, replied(c, ChainError))
     \/ \E result \in BroadcastResults :
          finish(c, postResult(result), replied(c, Ok(result)))
  /\ UNCHANGED <<wallet, persisted, vault>>

resumeBroadcastSync(c) ==
  /\ pending(c, "lcd.tx.broadcastSync")
  /\ \/ finish(c, ChainError, replied(c, ChainError))
     \/ \E result \in BroadcastResults :
          finish(c, postResult(result), replied(c, Ok(result)))
  /\ UNCHANGED <<wallet, persisted, vault>>

-----------------------------------------------------------------------------

Init ==
  /\ vault = StoredWallets
  /\ persisted \in {undefined} \cup Descriptors
  /\ wallet = persisted
  /\ calls = EmptyBag
  /\ last = EndedSession("init", Ok(undefined), <<>>)

Next ==
  \/ \E name \in Names : connect(name)
  \/ \E address \in LedgerAddresses : connectLedger(address)
  \/ disconnect
  \/ callGetConnectedWallet
  \/ \E password \in Passwords : callEncodeEncryptedWallet(password)
  \/ \E password \in Passwords : callValidatePassword(password)
  \/ \E bytes \in BytesIn, password \in Passwords :
       callSignBytes(bytes, password)
  \/ callCreate
  \/ \E address \in SignerAddresses, password \in Passwords :
       callCreateSignature(address, password)
  \/ \E password \in Passwords : callSign(password)
  \/ \E password \in Passwords : callPost(password)
  \/ \E c \in InFlight : resumeAccountInfo(c)
  \/ \E c \in InFlight : resumeGetPubKey(c)
  \/ \E c \in InFlight : resumeAccountNumberAndSequence(c)
  \/ \E c \in InFlight : resumeTxCreate(c)
  \/ \E c \in InFlight : resumeLedgerSign(c)
  \/ \E c \in InFlight : resumeCreateAndSignTx(c)
  \/ \E c \in InFlight : resumeBroadcastSync(c)

Spec == Init /\ [][Next]_vars

\* the session operations with interleaved sign() and post() calls only
NextRace ==
  \/ \E name \in Names : connect(name)
  \/ \E address \in LedgerAddresses : connectLedger(address)
  \/ disconnect
  \/ \E password \in Passwords : raceSign(password)
  \/ \E password \in Passwords : racePost(password)
  \/ \E c \in InFlight : resumeGetPubKey(c)
  \/ \E c \in InFlight : resumeAccountNumberAndSequence(c)
  \/ \E c \in InFlight : resumeTxCreate(c)
  \/ \E c \in InFlight : resumeLedgerSign(c)
  \/ \E c \in InFlight : resumeCreateAndSignTx(c)
  \/ \E c \in InFlight : resumeBroadcastSync(c)

SpecRace == Init /\ [][NextRace]_vars

-----------------------------------------------------------------------------
(* Vocabulary of the properties *)

VaultCalls ==
  {"vault.getStoredWallet", "vault.storeWallet", "vault.clearWallet",
   "vault.getDecryptedKey", "vault.testPassword"}
ChainCalls ==
  {"lcd.tx.create", "lcd.auth.accountInfo",
   "lcd.wallet.accountNumberAndSequence", "lcd.wallet.createAndSignTx",
   "lcd.tx.broadcastSync"}
DeviceCalls ==
  {"ledger.getPubKey", "ledger.createSignatureAmino", "ledger.signTx"}
SigningCalls == {"ledger.signTx", "lcd.wallet.createAndSignTx"}

\* the collaborator calls of a trace
CallsOf(trace) == {trace[i].call : i \in DOMAIN trace}

\* the Local variant: a descriptor tagged neither multisig nor ledger
IsLocalVariant(w) == w # undefined /\ ~isMultisig(w) /\ ~isLedger(w)

\* a step in which one of create, createSignature, sign, signBytes, post is
\* called
TxOpCalled ==
  \/ callCreate
  \/ \E address \in SignerAddresses, password \in Passwords :
       callCreateSignature(address, password)
  \/ \E password \in Passwords : callSign(password)
  \/ \E password \in Passwords : callPost(password)
  \/ \E bytes \in BytesIn, password \in Passwords :
       callSignBytes(bytes, password)

TxOps == {"create", "createSignature", "sign", "signBytes", "post"}

-----------------------------------------------------------------------------
(* C1 *)

\* C1: when disconnect() has ended, whether or not clearWallet() failed, the
\* in-memory session is empty.
C1_DisconnectLeavesSessionEmpty ==
  last.op = "disconnect" => wallet = undefined

-----------------------------------------------------------------------------
(* C2 *)

\* C2: a create, createSignature, sign, signBytes or post called when
\* disconnect() is the operation that ended last (no connect/connectLedger
\* since) ends at once with SessionError, having called no collaborator.
C2_AfterDisconnectOpsFail ==
  [][(last.op = "disconnect" /\ TxOpCalled)
       => /\ last'.op \in TxOps
          /\ last'.result = SessionError
          /\ last'.trace = <<>>
          /\ calls' = calls]_vars

-----------------------------------------------------------------------------
(* C3 *)

\* C3: with a Local wallet connected, sign or post called with a password
\* that does not decrypt the wallet's key ends at once with
\* IncorrectPasswordError, having made no call to the Chain Client.
C3_WrongPasswordFailsFast ==
  [][\A password \in Passwords :
       (/\ callSign(password) \/ callPost(password)
        /\ IsLocalVariant(wallet)
        /\ ~Decrypts(vault, wallet.name, password))
         => /\ last'.op \in {"sign", "post"}
            /\ last'.wallet = wallet
            /\ last'.result = IncorrectPasswordError
            /\ CallsOf(last'.trace) \cap ChainCalls = {}
            /\ calls' = calls]_vars

C3_Witness ==
  /\ last.op = "sign"
  /\ last.wallet = LocalWallet("alice", "addr1")
  /\ last.result = IncorrectPasswordError
  /\ CallsOf(last.trace) = {"vault.getDecryptedKey"}

-----------------------------------------------------------------------------
(* C4 *)

\* C4: signBytes on a session that holds a Ledger descriptor fails with
\* UnsupportedOperation and calls neither the Vault Gateway nor the device.
C4_LedgerSignBytesUnsupported ==
  (last.op = "signBytes" /\ isLedger(last.wallet))
    => /\ last.result = UnsupportedOperation
       /\ last.trace = <<>>

C4_Witness ==
  /\ last.op = "signBytes"
  /\ last.wallet = LedgerWallet("addr2")
  /\ last.result = UnsupportedOperation

-----------------------------------------------------------------------------
(* C5 *)

\* the error sign() ended with, read off the collaborator calls it made
SignFailure(trace) ==
  IF trace = <<>> THEN SessionError
  ELSE LET e == trace[Len(trace)] IN
       IF e.call = "ledger.getPubKey" /\ e.reply = Ok(undefined)
         THEN DeviceError
       ELSE IF e.call = "vault.getDecryptedKey" /\ e.reply = Ok(undefined)
         THEN IncorrectPasswordError
       ELSE e.reply

\* the broadcast is the call right after a signing call that returned a
\* signed transaction, and there is no other broadcast
BroadcastFollowsSign(trace, i) ==
  /\ i > 1
  /\ trace[i - 1].call \in SigningCalls
  /\ trace[i - 1].reply.kind = "ok"
  /\ \A j \in DOMAIN trace : trace[j].call = "lcd.tx.broadcastSync" => j = i

\* C5: post calls broadcast only after its sign step returned a signed
\* transaction; when sign failed, post fails with sign's error and there is
\* no broadcast.
C5_PostBroadcastsOnlyAfterSign ==
  /\ \A c \in InFlight :
       (c.op = "post" /\ c.pc = "lcd.tx.broadcastSync")
         => /\ c.trace # <<>>
            /\ c.trace[Len(c.trace)].call \in SigningCalls
            /\ c.trace[Len(c.trace)].reply = Ok(c.env.signedTx)
            /\ "lcd.tx.broadcastSync" \notin CallsOf(c.trace)
  /\ last.op = "post"
       => /\ \A i \in DOMAIN last.trace :
               last.trace[i].call = "lcd.tx.broadcastSync"
                 => BroadcastFollowsSign(last.trace, i)
          /\ "lcd.tx.broadcastSync" \notin CallsOf(last.trace)
               => /\ last.result.kind # "ok"
                  /\ last.result = SignFailure(last.trace)

\* the scenario: Ledger session, the device yields no public key
C5_Witness ==
  /\ last.op = "post"
  /\ last.wallet = LedgerWallet("addr2")
  /\ last.result = DeviceError
  /\ last.trace = <<T("ledger.getPubKey", Ok(undefined))>>

-----------------------------------------------------------------------------
(* C6 *)

\* a protocol-level rejection: a non-zero code
Rejection(result) == "code" \in DOMAIN result /\ result.code # 0

\* C6: when post has received a broadcast result, it fails with
\* BroadcastError carrying the result's raw log if and only if the result is
\* a rejection; otherwise it returns exactly that result.
C6_PostResult ==
  (last.op = "post" /\ "lcd.tx.broadcastSync" \in CallsOf(last.trace))
    => LET reply == last.trace[Len(last.trace)].reply IN
       /\ last.trace[Len(last.trace)].call = "lcd.tx.broadcastSync"
       /\ last.result.kind = "BroadcastError"
            <=> (reply.kind = "ok" /\ Rejection(reply.value))
       /\ reply.kind = "ok"
            => last.result = IF Rejection(reply.value)
                               THEN BroadcastError(reply.value.raw_log)
                               ELSE Ok(reply.value)

C6_Witness ==
  /\ last.op = "post"
  /\ last.result = BroadcastError("insufficient funds")

-----------------------------------------------------------------------------
(* C7 *)

\* C7: a connect(name) that returns, for a stored non-multisig wallet, leaves
\* the session and the persisted record both equal to {name, address} with
\* the stored address, getConnectedWallet() then returns that descriptor, and
\* the stored wallets are the same as before.
C7_ConnectSetsSession ==
  [][\A name \in Names :
       (/\ connect(name)
        /\ name \in DOMAIN vault
        /\ ~isMultisig(vault[name])
        /\ last'.result.kind = "ok")
         => /\ wallet' = [name |-> name, address |-> vault[name].address]
            /\ persisted' = wallet'
            /\ getConnectedWallet(wallet') = Ok(wallet')
            /\ vault' = vault]_vars

C7_Witness ==
  /\ last.op = "connect"
  /\ last.result.kind = "ok"
  /\ wallet = [name |-> "alice", address |-> "addr1"]
  /\ persisted = wallet

-----------------------------------------------------------------------------
(* C8 *)

\* C8: connect(name) for a name the vault does not hold fails with
\* NotFoundError and leaves the session and the persisted record as they
\* were.
C8_ConnectUnknownChangesNothing ==
  [][\A name \in Names :
       (connect(name) /\ name \notin DOMAIN vault)
         => /\ last'.op = "connect"
            /\ last'.result = NotFoundError
            /\ wallet' = wallet
            /\ persisted' = persisted]_vars

\* a previously connected wallet stays connected
C8_Witness ==
  /\ last.op = "connect"
  /\ last.result = NotFoundError
  /\ wallet # undefined
  /\ persisted = wallet

-----------------------------------------------------------------------------
(* C9 *)

-----------------------------------------------------------------------------
(* C10 *)

\* C10: validatePassword never raises, and whenever it does not accept the
\* password (wrong password, no connected session, gateway error) it returns
\* the one string "Incorrect password".
C10_OneGenericOutcome ==
  last.op = "validatePassword"
    => /\ last.result.kind = "ok"
       /\ \/ last.result.value = JsBool(TRUE)
          \/ last.result.value = JsString("Incorrect password")

-----------------------------------------------------------------------------
(* C11 *)

\* the Vault Gateway was asked for the key and did not give one: it raised,
\* or it yielded nothing
NotDecrypted(trace) ==
  \E i \in DOMAIN trace :
    /\ trace[i].call = "vault.getDecryptedKey"
    /\ \/ trace[i].reply.kind # "ok"
       \/ trace[i].reply.value = undefined

\* C11: encodeEncryptedWallet(password) ends with IncorrectPasswordError, and
\* returns no bundle, whenever the Vault Gateway did not decrypt the key (it
\* raised or it yielded no key); with an empty session it ends with
\* SessionError, having made no call to the Vault Gateway.
C11_UndecryptedKeyIsRejected ==
  last.op = "encodeEncryptedWallet"
    => /\ NotDecrypted(last.trace) => last.result = IncorrectPasswordError
       /\ last.wallet = undefined
            => last.result = SessionError /\ last.trace = <<>>

-----------------------------------------------------------------------------
(* C12 *)

\* a step of connect, connectLedger or disconnect
SessionOpStep ==
  \/ \E name \in Names : connect(name)
  \/ \E address \in LedgerAddresses : connectLedger(address)
  \/ disconnect

\* the operations that only read the session
ReadingOps ==
  {"getConnectedWallet", "encodeEncryptedWallet", "validatePassword",
   "create", "createSignature", "sign", "signBytes", "post"}

\* C12: the session holds nothing or exactly one descriptor; the session and
\* the persisted record change in steps of connect, connectLedger and
\* disconnect only; every step of getConnectedWallet, encodeEncryptedWallet,
\* validatePassword, create, createSignature, sign, signBytes and post (a
\* call, a resumption, an end in success or in failure) leaves both as they
\* were.
C12_OnlySessionOpsChangeSession ==
  /\ [](wallet \in {undefined} \cup Descriptors)
  /\ [][(wallet' # wallet \/ persisted' # persisted) => SessionOpStep]_vars
  /\ [][(calls' # calls \/ (last' # last /\ last'.op \in ReadingOps))
          => (wallet' = wallet /\ persisted' = persisted)]_vars

C12_Witness ==
  /\ last.op = "post"
  /\ last.result.kind = "BroadcastError"
  /\ last.wallet # undefined
  /\ wallet = last.wallet
  /\ persisted = last.wallet

-----------------------------------------------------------------------------
(* C13 *)

\* C13: a descriptor held by the session has an address, and a name unless
\* it is tagged ledger; when connect(name) has succeeded the session holds
\* the stored wallet's name and address, tagged multisig exactly when the
\* stored wallet is, and nothing else; when connectLedger(address) has
\* succeeded it holds an address tagged ledger, and no name.
C13_HeldDescriptorIsWellFormed ==
  /\ wallet # undefined
       => /\ "address" \in DOMAIN wallet
          /\ isLedger(wallet) \/ "name" \in DOMAIN wallet
  /\ (last.op = "connect" /\ last.result.kind = "ok")
       => LET stored == last.trace[1].reply.value IN
          /\ wallet.name = stored.name
          /\ wallet.address = stored.address
          /\ DOMAIN wallet = IF isMultisig(stored)
                               THEN {"name", "address", "multisig"}
                               ELSE {"name", "address"}
          /\ isMultisig(stored) => wallet.multisig = TRUE
  /\ (last.op = "connectLedger" /\ last.result.kind = "ok")
       => /\ DOMAIN wallet = {"address", "ledger"}
          /\ wallet.address \in LedgerAddresses
          /\ wallet.ledger = TRUE

C13_Witness ==
  /\ last.op = "connectLedger"
  /\ last.result.kind = "ok"
  /\ wallet = [address |-> "addr2", ledger |-> TRUE]

-----------------------------------------------------------------------------
(* C14 *)

\* the positions of a trace at which `call` was made
Positions(trace, call) == {i \in DOMAIN trace : trace[i].call = call}

\* the call of this trace made exactly one lookup `call`, and chain id,
\* account number and sequence are those this lookup returned
CarriesOwnLookup(trace, call, chain, accountNumber, sequence) ==
  \E i \in DOMAIN trace :
    /\ Positions(trace, call) = {i}
    /\ trace[i].reply.kind = "ok"
    /\ chain = chainID
    /\ accountNumber = trace[i].reply.value.account_number
    /\ sequence = trace[i].reply.value.sequence

\* C14: the signing document of a createSignature call, and the signing
\* options of a Ledger-path sign (or post) call, carry the chain id and the
\* account number and sequence returned by the one lookup made in that same
\* call: when the document is built, when it is handed to the device, and
\* when the call has ended; never the sequence of an earlier call.
C14_DocumentCarriesOwnLookup ==
  /\ \A c \in InFlight :
       /\ (c.op = "createSignature" /\ c.pc # "lcd.auth.accountInfo")
            => CarriesOwnLookup(c.trace, "lcd.auth.accountInfo",
                                c.env.doc.chainID, c.env.doc.account_number,
                                c.env.doc.sequence)
       /\ (c.op \in {"sign", "post"} /\ c.pc = "ledger.signTx")
            => CarriesOwnLookup(c.trace, "lcd.wallet.accountNumberAndSequence",
                                c.env.options.chainID,
                                c.env.options.accountNumber,
                                c.env.options.sequence)
  /\ (last.op = "createSignature" /\ last.result.kind = "ok")
       => LET doc == last.result.value.doc IN
          CarriesOwnLookup(last.trace, "lcd.auth.accountInfo",
                           doc.chainID, doc.account_number, doc.sequence)
  /\ (last.op \in {"sign", "post"} /\ last.wallet # undefined)
       => \A i \in Positions(last.trace, "ledger.signTx") :
            last.trace[i].reply.kind = "ok"
              => LET options == last.trace[i].reply.value.options IN
                 CarriesOwnLookup(last.trace,
                                  "lcd.wallet.accountNumberAndSequence",
                                  options.chainID, options.accountNumber,
                                  options.sequence)

\* a Ledger sign has ended with sequence 0, and a later sign of the same
\* wallet is about to hand the device a transaction with sequence 1
C14_Witness ==
  /\ last.op = "sign"
  /\ last.result.kind = "ok"
  /\ isLedger(last.wallet)
  /\ last.result.value.options.sequence = 0
  /\ \E c \in InFlight :
       /\ c.op = "sign"
       /\ c.wallet = last.wallet
       /\ c.pc = "ledger.signTx"
       /\ c.env.options.sequence = 1

-----------------------------------------------------------------------------
(* C15 *)

\* the steps of sign on a Ledger session, in order
LedgerSignSteps ==
  <<"ledger.getPubKey", "lcd.wallet.accountNumberAndSequence",
    "lcd.tx.create", "ledger.signTx">>

\* a collaborator gave what it was asked for
Gave(entry) == entry.reply.kind = "ok" /\ entry.reply.value # undefined

\* the error a call ends with when this collaborator call gave nothing
FailureOf(entry) ==
  IF entry.reply.kind # "ok" THEN entry.reply ELSE DeviceError

\* C15: a sign call on a Ledger session asks the device for the public key,
\* looks up account number and sequence, builds the unsigned transaction and
\* hands it to the device to sign, in this order and each once, with the
\* sign mode legacy amino-JSON; a step is taken only when every step before
\* it gave its result, the call ends with the error of the step that failed
\* or with the transaction the device signed, and the Vault Gateway is never
\* called.
C15_LedgerSignInOrder ==
  /\ \A c \in InFlight :
       (c.op \in {"sign", "post"} /\ isLedger(c.wallet)
          /\ c.pc # "lcd.tx.broadcastSync")
         => /\ Len(c.trace) < Len(LedgerSignSteps)
            /\ c.pc = LedgerSignSteps[Len(c.trace) + 1]
            /\ \A i \in DOMAIN c.trace :
                 c.trace[i].call = LedgerSignSteps[i] /\ Gave(c.trace[i])
            /\ c.pc = "ledger.signTx"
                 => c.env.options.signMode = "SIGN_MODE_LEGACY_AMINO_JSON"
  /\ (last.op = "sign" /\ last.wallet # undefined /\ isLedger(last.wallet))
       => LET trace == last.trace
              n == Len(trace)
          IN /\ n \in 1..Len(LedgerSignSteps)
             /\ \A i \in 1..n :
                  /\ trace[i].call = LedgerSignSteps[i]
                  /\ i < n => Gave(trace[i])
             /\ CallsOf(trace) \cap VaultCalls = {}
             /\ IF Gave(trace[n])
                  THEN /\ n = Len(LedgerSignSteps)
                       /\ last.result = trace[n].reply
                       /\ last.result.value.options.signMode
                            = "SIGN_MODE_LEGACY_AMINO_JSON"
                  ELSE last.result = FailureOf(trace[n])

\* the account lookup of a Ledger sign has failed
C15_Witness ==
  /\ last.op = "sign"
  /\ last.wallet = LedgerWallet("addr2")
  /\ Len(last.trace) = 2
  /\ last.result = ChainError

-----------------------------------------------------------------------------
(* C16 *)

\* the session holds a wallet whose key `password` gives: a Ledger wallet,
\* or a wallet whose stored key the password decrypts
CanSignWith(password) ==
  /\ wallet # undefined
  /\ isLedger(wallet) \/ Decrypts(vault, wallet.name, password)

\* a sign or post call is issued and goes in flight
SignGoesInFlight(password) ==
  /\ raceSign(password) \/ racePost(password)
  /\ BagCardinality(calls') = BagCardinality(calls) + 1

\* a step takes at most one call out of the calls in flight and puts at most
\* one in
OneCallSteps ==
  /\ BagCardinality(calls (-) calls') <= 1
  /\ BagCardinality(calls' (-) calls) <= 1

\* C16: signing attempts are not coordinated: whatever sign and post calls
\* are in flight, for whatever account, another sign or post call can be
\* issued and goes in flight, and no step of one call ends, restarts or
\* holds back another; so two calls in flight for one account can hold
\* signed transactions that carry the same sequence.
C16_SignsAreNotCoordinated ==
  /\ [](\A password \in Passwords :
          (BagCardinality(calls) < MaxRacers /\ CanSignWith(password))
            => ENABLED SignGoesInFlight(password))
  /\ [][OneCallSteps]_vars

\* two post calls in flight for one account, each about to broadcast a
\* signed transaction, both with the same account number and sequence
C16_Witness ==
  \E c \in InFlight, d \in InFlight :
    /\ c # d \/ CopiesIn(c, calls) >= 2
    /\ c.op = "post" /\ d.op = "post"
    /\ c.pc = "lcd.tx.broadcastSync" /\ d.pc = "lcd.tx.broadcastSync"
    /\ c.wallet.address = d.wallet.address
    /\ c.env.signedTx.options.accountNumber
         = d.env.signedTx.options.accountNumber
    /\ c.env.signedTx.options.sequence = d.env.signedTx.options.sequence

-----------------------------------------------------------------------------
(* C17 *)

\* no collaborator call is made twice in this sequence of calls
NoCallTwice(names) ==
  \A i, j \in DOMAIN names : names[i] = names[j] => i = j

\* the names of the collaborator calls of a trace, in order
CallNames(trace) == [i \in DOMAIN trace |-> trace[i].call]

\* the error a call ends with when this collaborator call has failed
EndsWith(entry) ==
  IF entry.reply.kind # "ok" THEN entry.reply
  ELSE IF entry.call = "ledger.getPubKey" THEN DeviceError
  ELSE IncorrectPasswordError

\* C17: within one call of create, createSignature, sign or post no
\* collaborator operation is invoked twice; a call is in flight only while
\* every collaborator it has called gave its result; when a collaborator has
\* failed, that call is the last the operation made and the operation has
\* ended with that failure; one post makes at most one broadcast.
C17_NoRetry ==
  /\ \A c \in InFlight :
       /\ NoCallTwice(Append(CallNames(c.trace), c.pc))
       /\ \A i \in DOMAIN c.trace : Gave(c.trace[i])
  /\ last.op \in {"create", "createSignature", "sign", "post"}
       => LET trace == last.trace
              n == Len(trace)
          IN /\ NoCallTwice(CallNames(trace))
             /\ \A i \in 1..n : i < n => Gave(trace[i])
             /\ (n > 0 /\ ~Gave(trace[n]))
                  => last.result = EndsWith(trace[n])
             /\ Cardinality(Positions(trace, "lcd.tx.broadcastSync")) <= 1

\* a post has ended with the failure of its one broadcast
C17_Witness ==
  /\ last.op = "post"
  /\ last.result = ChainError
  /\ Len(last.trace) > 0
  /\ last.trace[Len(last.trace)]
       = T("lcd.tx.broadcastSync", ChainError)

-----------------------------------------------------------------------------
(* C18 *)

\* C18: connect, connectLedger and disconnect run without suspension, so
\* between operations none of them is in progress: in every state, from the
\* initial one on, the persisted record is the in-memory session (both
\* empty, or the same descriptor), also when the operation that ended last
\* failed because the store or the clear failed.
C18_PersistedIsSession == persisted = wallet

\* a connectLedger has failed in its store while another wallet was held
C18_Witness ==
  /\ last.op = "connectLedger"
  /\ last.result = StorageError
  /\ wallet = LocalWallet("alice", "addr1")
  /\ persisted = wallet

-----------------------------------------------------------------------------
(* C19 *)

\* the suspended software-path post `c` is resumed with a signed transaction
\* and goes on to broadcast it, for the wallet it started with
GoesOnToBroadcast(c) ==
  /\ resumeCreateAndSignTx(c)
  /\ \E d \in BagToSet(calls') :
       /\ d.op = "post" /\ d.wallet = c.wallet
       /\ d.pc = "lcd.tx.broadcastSync"
       /\ d.env.signedTx.tx.signer = c.wallet.address

\* this sign or post call uses the address of the wallet `w` in what it
\* builds, and the device exactly when `w` is a Ledger wallet
UsesDescriptor(w, trace, pc, env) ==
  /\ isLedger(w) <=> (CallsOf(trace) \cup {pc}) \cap DeviceCalls # {}
  /\ pc = "lcd.tx.create" => env.address = w.address
  /\ pc = "ledger.signTx"
       => env.unsignedTx.signer = w.address
          /\ env.options.accountNumber
               = AccountInfo(w.address, 0).account_number
  /\ pc = "lcd.tx.broadcastSync" => env.signedTx.tx.signer = w.address
  /\ \A i \in DOMAIN trace :
       (trace[i].call \in SigningCalls /\ trace[i].reply.kind = "ok")
         => trace[i].reply.value.tx.signer = w.address

\* C19: a sign or post call that started with a wallet connected is neither
\* ended nor redirected by a connect, connectLedger or disconnect made while
\* it is suspended: these leave the calls in flight as they are; the call
\* goes on with the address and the variant of the wallet it started with,
\* never ends with SessionError, and a post suspended in its signing can go
\* on to its broadcast whatever the session holds by then, also nothing.
C19_SuspendedCallKeepsItsWallet ==
  /\ [][SessionOpStep => calls' = calls]_vars
  /\ [](\A c \in InFlight :
          c.op \in {"sign", "post"}
            => /\ c.wallet # undefined
               /\ UsesDescriptor(c.wallet, c.trace, c.pc, c.env)
               /\ (c.op = "post" /\ c.pc = "lcd.wallet.createAndSignTx")
                    => ENABLED GoesOnToBroadcast(c))
  /\ []((last.op \in {"sign", "post"} /\ last.wallet # undefined)
          => /\ last.result # SessionError
             /\ Len(last.trace) > 0
             /\ UsesDescriptor(last.wallet, last.trace, "", [none |-> TRUE]))

\* a post of a connected wallet has broadcast and ended after the session
\* was cleared
C19_Witness ==
  /\ wallet = undefined
  /\ last.op = "post"
  /\ last.wallet = LocalWallet("alice", "addr1")
  /\ last.result.kind = "ok"
  /\ last.trace[Len(last.trace)].call = "lcd.tx.broadcastSync"

-----------------------------------------------------------------------------
(* C20 *)

\* the calls `trace`, with the pending call `pending_` if any, are those of
\* the password-decrypt path of `op`: the Hardware Device Gateway is not
\* called, and the key is asked of the Vault Gateway first thing (in
\* createSignature: first thing after the account lookup has succeeded)
SoftwareKeyPath(op, trace, pending_) ==
  /\ (CallsOf(trace) \cup pending_) \cap DeviceCalls = {}
  /\ op \in {"sign", "signBytes"}
       => Len(trace) > 0 /\ trace[1].call = "vault.getDecryptedKey"
  /\ (op = "createSignature" /\ pending_ = {})
       => /\ Len(trace) > 0 /\ trace[1].call = "lcd.auth.accountInfo"
          /\ Gave(trace[1])
               => Len(trace) = 2 /\ trace[2].call = "vault.getDecryptedKey"

\* C20: createSignature, sign and signBytes tell a Ledger wallet from every
\* other wallet and nothing more: on a Multisig session they take the
\* password-decrypt path a Local session takes, asking the Vault Gateway for
\* the key of the wallet's name, and never call the Hardware Device Gateway;
\* signBytes has the same outcomes for a Multisig and a Local descriptor of
\* one name and address.
C20_MultisigTakesSoftwarePath ==
  /\ \A c \in InFlight :
       (c.op \in {"createSignature", "sign"} /\ isMultisig(c.wallet))
         => SoftwareKeyPath(c.op, c.trace, {c.pc})
  /\ (last.op \in {"createSignature", "sign", "signBytes"}
        /\ last.wallet # undefined /\ ~isLedger(last.wallet))
       => SoftwareKeyPath(last.op, last.trace, {})
  /\ \A name \in DOMAIN vault, bytes \in BytesIn, password \in Passwords :
       signBytes(MultisigWallet(name, vault[name].address), vault, bytes,
                 password)
         = signBytes(LocalWallet(name, vault[name].address), vault, bytes,
                     password)

\* a sign on a Multisig session has asked the Vault Gateway for the key
C20_Witness ==
  /\ last.op = "sign"
  /\ last.wallet = MultisigWallet("msig", "addr3")
  /\ last.trace[1].call = "vault.getDecryptedKey"

====
